---- MODULE Spec2Model ----
(***************************************************************************)
(* Model of QSwarmController (src/controllers/q_swarm_controller): the     *)
(* robot-side controller of one FootBot.  The host constructs it, calls    *)
(* Init once, then ControlStep every tick (and Reset at will), and at the  *)
(* end Destroy and the destructor.                                         *)
(*                                                                         *)
(* Units.  Lengths are integers in units of 0.005 m, so that               *)
(* m_fCollisionThreshold (0.01) is 2 and m_fGoalThreshold (0.5) is 100;    *)
(* distances are compared by their squares.  Rewards are integer tenths    *)
(* (-0.1 is -1, -5.0 is -50, 10.0 is 100).  Proximity readings are         *)
(* integer hundredths (0.9 is 90).  Wheel speeds are in units of 0.05, so  *)
(* m_fVelocity (0.1) is 2 and half of it is 1.                             *)
(* Strings are sequences of one-character strings.                         *)
(***************************************************************************)
EXTENDS Integers, Sequences, FiniteSets, TLC

\* ------------------------------------------------------------------ bounds
MaxSteps == 2
MaxEpisodes == 2
NumSensors == 2
RandBound == 4
MaxRecvFailures == 1
MaxIrregularReads == 1

\* ------------------------------------------------------ program constants
DefaultMaxSteps == 500
DefaultMaxEpisodes == 1000
maxRetries == 10
m_fVelocity == 2
m_fCollisionThreshold == 2
m_fGoalThreshold == 100
GoalX == 3600
GoalY == 3600
ProxLimit == 90
StepPenalty == -1
GoalReward == 100
CollisionPenalty == -50
IntMax == 2147483647

m_cGoalPosition == <<GoalX, GoalY>>

\* ------------------------------------------------------------ input sets
\* Values of max_steps and max_episodes the configuration may carry.
MaxStepsChoices == 0..MaxSteps
MaxEpisodesChoices == 0..MaxEpisodes

\* Positions the positioning sensor may report: two far from the goal and
\* closer to each other than the collision threshold, one exactly at the
\* collision threshold from the first, one exactly at the goal threshold
\* from the goal and one just inside it.
Positions ==
  { <<0, 0>>, <<1, 0>>, <<2, 0>>, <<3540, 3520>>, <<3540, 3521>> }

\* Readings of one proximity sensor: nothing, exactly 0.9, and 0.95.
ProxValues == {0, 90, 95}
\* The readings of the ring: at most one sensor reads something.
ProxReadings ==
  { r \in [1..NumSensors -> ProxValues] :
      Cardinality({k \in 1..NumSensors : r[k] # 0}) <= 1 }

\* What socket() may return: an error or a descriptor.
SocketResults == {-1, 0, 3}

\* What send() may return: an error or a byte count.
SendResults == {-1, 1}

\* Values of rand().
RandValues == 0..RandBound

\* Names the host may give the robot.
RobotNames == { <<"f", "b", "1", "2">> }

Prefix == <<"A", "C", "T", "I", "O", "N">>
BigNumber == <<"2", "1", "4", "7", "4", "8", "3", "6", "4", "8">>

\* What recv() may put in the buffer: <<>> stands for a return value <= 0.
RecvBuffers ==
  { <<>>,
    <<"\n">>,
    Prefix \o <<"|", "0", "\n">>,
    Prefix \o <<"|", "1", "\n">>,
    Prefix \o <<"|", "2", "\n">>,
    Prefix \o <<"|", "3", "\n">>,
    Prefix \o <<"|", "7", "\n">>,
    Prefix \o <<"|", "-", "1", "\n">>,
    Prefix \o <<"|", "a", "b", "c", "\n">>,
    Prefix \o <<"|", "\n">>,
    Prefix \o <<"|">> \o BigNumber \o <<"\n">>,
    <<"g", "a", "r", "b", "a", "g", "e", "\n">> }

\* What recv() may deliver as the acknowledgment of a reward.
AckBuffers == { <<>>, <<"O", "K", "\n">> }

\* ------------------------------------------------------------------ state
VARIABLES
  phase,                \* "constructed", "connecting", "ready", "aborted", "deleted"
  connect_i,            \* the loop index i of ConnectToQNetwork
  m_nRobotIdNum,
  m_nEpisode,
  m_nSteps,
  m_nMaxSteps,
  m_nMaxEpisodes,
  m_nSocket,
  m_bConnected,
  m_bEpisodeDone,
  m_fEpisodeReward,
  m_cPreviousPosition,
  os,                   \* the descriptor socket() gave: created, open, closes
  lastOp,               \* the branch the last handler call took, "none" once
                        \* the host has gone on
  trace,                \* what that call did to wheels and socket, in order
  sensed,               \* what the sensors read in that call
  outcome,              \* a Running tick's action, reward and done
  episodeRewards,       \* the rewards of the current episode's ticks
  nEnded,               \* episodes ended since Init or the last Reset
  nIncrements,          \* increments of m_nEpisode since Init or the last Reset
  pc,                   \* where ControlStep stands: "idle" between calls, or
                        \* the recv() it waits in
  toPeer,               \* the messages sent that the peer has not answered yet
  wire,                 \* the bytes the peer has sent that recv() has not delivered
  nRecvFailed,          \* the recv() calls that returned <= 0
  nIrregular            \* the recv() calls that delivered bytes other than
                        \* exactly one whole line

fields == <<m_nRobotIdNum, m_nEpisode, m_nSteps, m_nMaxSteps, m_nMaxEpisodes,
            m_nSocket, m_bConnected, m_bEpisodeDone, m_fEpisodeReward,
            m_cPreviousPosition>>
history == <<lastOp, trace, sensed, outcome, episodeRewards, nEnded, nIncrements>>
stream == <<pc, toPeer, wire, nRecvFailed, nIrregular>>
vars == <<phase, connect_i, fields, os, history, stream>>

NoPosition == <<0, 0>>
NoSensed == [pos |-> NoPosition, prox |-> <<>>]
NoOutcome == [action |-> -1, reward |-> 0, done |-> FALSE]

\* ---------------------------------------------------------------- events
EvWheels(left, right) == <<"wheels", left, right>>
EvSend(message, sent) == <<"send", message, sent>>
EvRecv(buffer) == <<"recv", buffer>>
EvClose(fd) == <<"close", fd>>

IsSend(e) == e[1] = "send"
IsRecv(e) == e[1] = "recv"
IsWheels(e) == e[1] = "wheels"
IsClose(e) == e[1] = "close"
Count(s, P(_)) == Cardinality({k \in 1..Len(s) : P(s[k])})

\* ------------------------------------------------------- pure functions
Digits == {"0", "1", "2", "3", "4", "5", "6", "7", "8", "9"}
DigitVal ==
  "0" :> 0 @@ "1" :> 1 @@ "2" :> 2 @@ "3" :> 3 @@ "4" :> 4 @@
  "5" :> 5 @@ "6" :> 6 @@ "7" :> 7 @@ "8" :> 8 @@ "9" :> 9
Whitespace == {" ", "\t", "\n", "\r"}

\* s.substr(pos): the characters of s from index pos (0-based) on.
Substr(s, pos) == SubSeq(s, pos + 1, Len(s))

\* s.find(c) and s.find_last_of(set): a 0-based index, or -1 for npos.
Find(s, c) ==
  IF \E k \in 1..Len(s) : s[k] = c
    THEN (CHOOSE k \in 1..Len(s) : s[k] = c /\ \A j \in 1..(k - 1) : s[j] # c) - 1
    ELSE -1
FindLastOf(s, set) ==
  IF \E k \in 1..Len(s) : s[k] \in set
    THEN (CHOOSE k \in 1..Len(s) :
            s[k] \in set /\ \A j \in (k + 1)..Len(s) : s[j] \notin set) - 1
    ELSE -1

\* The digits of s from index k (1-based) on, accumulated into an int:
\* [value, overflow, any], where overflow says the value left the int range.
RECURSIVE ScanDigits(_, _, _)
ScanDigits(s, k, acc) ==
  IF k > Len(s) \/ s[k] \notin Digits
    THEN acc
    ELSE LET d == DigitVal[s[k]]
             over == acc.overflow \/ acc.value > (IntMax - d) \div 10
         IN ScanDigits(s, k + 1,
                       [value |-> IF over THEN 0 ELSE acc.value * 10 + d,
                        overflow |-> over, any |-> TRUE])

RECURSIVE SkipWhitespace(_, _)
SkipWhitespace(s, k) ==
  IF k <= Len(s) /\ s[k] \in Whitespace THEN SkipWhitespace(s, k + 1) ELSE k

\* std::stoi(s): leading whitespace, an optional sign, then digits; what
\* follows the digits is ignored.  Throws std::invalid_argument when there
\* is no digit and std::out_of_range when the value does not fit an int.
Stoi(s) ==
  LET k0 == SkipWhitespace(s, 1)
      signed == k0 <= Len(s) /\ s[k0] \in {"+", "-"}
      neg == signed /\ s[k0] = "-"
      k1 == IF signed THEN k0 + 1 ELSE k0
      scan == ScanDigits(s, k1, [value |-> 0, overflow |-> FALSE, any |-> FALSE])
  IN IF ~scan.any THEN [threw |-> "invalid_argument", value |-> 0]
     ELSE IF scan.overflow THEN [threw |-> "out_of_range", value |-> 0]
     ELSE [threw |-> "none", value |-> IF neg THEN 0 - scan.value ELSE scan.value]

\* ReceiveMessage on a connected socket, given what recv() put in the buffer.
StripNewline(msg) ==
  IF msg # <<>> /\ msg[Len(msg)] = "\n" THEN SubSeq(msg, 1, Len(msg) - 1) ELSE msg

\* The parse of the response in GetActionFromQNetwork.
ParseAction(response) ==
  LET pos == Find(response, "|")
  IN IF pos # -1 THEN Stoi(Substr(response, pos + 1))
     ELSE [threw |-> "none", value |-> 0]

\* The wheel speeds ExecuteAction sets for an action.
WheelSpeeds(action) ==
  CASE action = 0 -> <<m_fVelocity, m_fVelocity>>
    [] action = 1 -> <<0 - (m_fVelocity \div 2), m_fVelocity \div 2>>
    [] action = 2 -> <<m_fVelocity \div 2, 0 - (m_fVelocity \div 2)>>
    [] action = 3 -> <<0, 0>>
    [] OTHER -> <<m_fVelocity, m_fVelocity>>

\* The square of (a - b).Length().
SquareLength(a, b) ==
  (a[1] - b[1]) * (a[1] - b[1]) + (a[2] - b[2]) * (a[2] - b[2])

ReachedGoal(currentPos) ==
  SquareLength(currentPos, m_cGoalPosition) < m_fGoalThreshold * m_fGoalThreshold

\* The result of DetectCollision; it also sets m_cPreviousPosition.
RECURSIVE ProximityHit(_, _)
ProximityHit(tReadings, k) ==
  IF k > Len(tReadings) THEN FALSE
  ELSE IF tReadings[k] > ProxLimit THEN TRUE
  ELSE ProximityHit(tReadings, k + 1)

DetectCollision(currentPos, previousPos, tReadings) ==
  IF SquareLength(currentPos, previousPos)
       < m_fCollisionThreshold * m_fCollisionThreshold
    THEN TRUE
    ELSE ProximityHit(tReadings, 1)

\* CalculateReward storing the position in a goal tick as well.
CalculateRewardStoresAlways(currentPos, previousPos, tReadings) ==
  IF ReachedGoal(currentPos)
    THEN [reward |-> GoalReward, done |-> TRUE, previous |-> currentPos]
  ELSE IF DetectCollision(currentPos, previousPos, tReadings)
    THEN [reward |-> CollisionPenalty, done |-> TRUE, previous |-> currentPos]
  ELSE [reward |-> StepPenalty, done |-> FALSE, previous |-> currentPos]

\* CalculateReward with the collision test before the goal test.
CalculateRewardCollisionFirst(currentPos, previousPos, tReadings) ==
  IF DetectCollision(currentPos, previousPos, tReadings)
    THEN [reward |-> CollisionPenalty, done |-> TRUE, previous |-> currentPos]
  ELSE IF ReachedGoal(currentPos)
    THEN [reward |-> GoalReward, done |-> TRUE, previous |-> currentPos]
  ELSE [reward |-> StepPenalty, done |-> FALSE, previous |-> currentPos]

\* CalculateReward: the reward, done, and the new m_cPreviousPosition
\* (DetectCollision runs, and stores the position, only when the goal is
\* not reached).
CalculateReward(currentPos, previousPos, tReadings) ==
  IF ReachedGoal(currentPos)
    THEN [reward |-> GoalReward, done |-> TRUE, previous |-> previousPos]
  ELSE IF DetectCollision(currentPos, previousPos, tReadings)
    THEN [reward |-> CollisionPenalty, done |-> TRUE, previous |-> currentPos]
  ELSE [reward |-> StepPenalty, done |-> FALSE, previous |-> currentPos]

\* ---------------------------------------------------------- transport
\* Each operator gives what the call returns and the events it causes, in
\* the current state of m_nSocket and m_bConnected.

\* SendMessage(message), where send() returns sent.
SendMessage(message, sent) ==
  IF m_nSocket < 0 \/ ~m_bConnected
    THEN [events |-> <<>>, result |-> FALSE]
    ELSE [events |-> <<EvSend(message, sent)>>, result |-> sent > 0]

\* ReceiveMessage(), where recv() fills the buffer (<<>>: it returned <= 0).
ReceiveMessage(buffer) ==
  IF m_nSocket < 0 \/ ~m_bConnected
    THEN [events |-> <<>>, result |-> <<>>]
    ELSE [events |-> <<EvRecv(buffer)>>,
          result |-> IF Len(buffer) > 0 THEN StripNewline(buffer) ELSE <<>>]

\* CloseConnection() without m_bConnected = false.
CloseConnectionKeepsConnected ==
  IF m_nSocket >= 0
    THEN [socket |-> -1, connected |-> m_bConnected,
          os |-> [os EXCEPT !.open = FALSE, !.closes = @ + 1],
          events |-> <<EvClose(m_nSocket)>>]
    ELSE [socket |-> m_nSocket, connected |-> m_bConnected, os |-> os,
          events |-> <<>>]

\* CloseConnection() without m_nSocket = -1.
CloseConnectionKeepsSocket ==
  IF m_nSocket >= 0
    THEN [socket |-> m_nSocket, connected |-> FALSE,
          os |-> [os EXCEPT !.open = FALSE, !.closes = @ + 1],
          events |-> <<EvClose(m_nSocket)>>]
    ELSE [socket |-> m_nSocket, connected |-> m_bConnected, os |-> os,
          events |-> <<>>]

\* CloseConnection(): the new m_nSocket, m_bConnected and descriptor state.
CloseConnection ==
  IF m_nSocket >= 0
    THEN [socket |-> -1, connected |-> FALSE,
          os |-> [os EXCEPT !.open = FALSE, !.closes = @ + 1],
          events |-> <<EvClose(m_nSocket)>>]
    ELSE [socket |-> m_nSocket, connected |-> m_bConnected, os |-> os,
          events |-> <<>>]

\* ------------------------------------------------------------- protocol
\* GetState(): [x, y, goal_x, goal_y, prox_0, ...].
GetState(pos, tReadings) ==
  <<pos[1], pos[2], m_cGoalPosition[1], m_cGoalPosition[2]>> \o tReadings

StateMessage(state) == [type |-> "STATE", id |-> m_nRobotIdNum, state |-> state]
\* The REWARD message with the done flag written the other way round.
RewardMessageSwapped(reward, done) ==
  [type |-> "REWARD", id |-> m_nRobotIdNum, reward |-> reward,
   done |-> IF done THEN "0" ELSE "1"]
\* The REWARD message of SendReward.
RewardMessage(reward, done) ==
  [type |-> "REWARD", id |-> m_nRobotIdNum, reward |-> reward,
   done |-> IF done THEN "1" ELSE "0"]

\* The action a disconnected controller picks.
RandomAction(randv) == randv % 4

\* GetActionFromQNetwork with Stop (3) as the default action.
GetActionDefaultStop(state, randv, sent, buffer) ==
  IF ~m_bConnected
    THEN [events |-> <<>>, threw |-> "none", action |-> RandomAction(randv)]
    ELSE
      LET snd == SendMessage(StateMessage(state), sent)
          rcv == ReceiveMessage(buffer)
          parsed == ParseAction(rcv.result)
      IN IF ~snd.result
           THEN [events |-> snd.events, threw |-> "none", action |-> 3]
         ELSE IF rcv.result = <<>>
           THEN [events |-> snd.events \o rcv.events, threw |-> "none", action |-> 3]
         ELSE [events |-> snd.events \o rcv.events, threw |-> parsed.threw,
               action |-> parsed.value]

\* GetActionFromQNetwork(state): the action returned or the exception that
\* leaves it, and the events.  randv is rand(), sent what send() returns,
\* buffer what recv() delivers.
GetActionFromQNetwork(state, randv, sent, buffer) ==
  IF ~m_bConnected
    THEN [events |-> <<>>, threw |-> "none", action |-> RandomAction(randv)]
    ELSE
      LET snd == SendMessage(StateMessage(state), sent)
          rcv == ReceiveMessage(buffer)
          parsed == ParseAction(rcv.result)
      IN IF ~snd.result
           THEN [events |-> snd.events, threw |-> "none", action |-> 0]
         ELSE IF rcv.result = <<>>
           THEN [events |-> snd.events \o rcv.events, threw |-> "none", action |-> 0]
         ELSE [events |-> snd.events \o rcv.events, threw |-> parsed.threw,
               action |-> parsed.value]

\* ExecuteAction without its wheel command.
ExecuteActionNoCommand(action) == <<>>

\* ExecuteAction(action): the one wheel command.
ExecuteAction(action) ==
  <<EvWheels(WheelSpeeds(action)[1], WheelSpeeds(action)[2])>>

\* SendReward(reward, done): the events; ack is what recv() delivers.
SendReward(reward, done, sent, ack) ==
  IF ~m_bConnected
    THEN <<>>
    ELSE SendMessage(RewardMessage(reward, done), sent).events
           \o ReceiveMessage(ack).events

\* The test that ends an episode, with > for >=.
EpisodeEndsOffByOne(done, steps) == done \/ steps > m_nMaxSteps

\* The test that ends an episode at the end of a Running tick.
EpisodeEnds(done, steps) == done \/ steps >= m_nMaxSteps

\* ResetEpisode() without m_bEpisodeDone = false.
ResetEpisodeKeepsDone(pos) ==
  [episode |-> m_nEpisode + 1, steps |-> 0, done |-> m_bEpisodeDone, reward |-> 0,
   previous |-> pos, events |-> <<EvWheels(0, 0)>>]

\* ResetEpisode(): the new counters, given the position the sensor reads.
ResetEpisode(pos) ==
  [episode |-> m_nEpisode + 1, steps |-> 0, done |-> FALSE, reward |-> 0,
   previous |-> pos, events |-> <<EvWheels(0, 0)>>]

\* ----------------------------------------------------------------- Init
TypeOK ==
  /\ phase \in {"constructed", "connecting", "ready", "aborted", "deleted"}
  /\ connect_i \in 0..(maxRetries - 1)
  /\ m_nEpisode \in Nat
  /\ m_nSteps \in Nat
  /\ m_nSocket \in SocketResults
  /\ m_bConnected \in BOOLEAN
  /\ m_bEpisodeDone \in BOOLEAN

\* The state the constructor leaves.
Init ==
  /\ phase = "constructed"
  /\ connect_i = 0
  /\ m_nRobotIdNum = 0
  /\ m_nEpisode = 0
  /\ m_nSteps = 0
  /\ m_nMaxSteps = DefaultMaxSteps
  /\ m_nMaxEpisodes = DefaultMaxEpisodes
  /\ m_nSocket = -1
  /\ m_bConnected = FALSE
  /\ m_bEpisodeDone = FALSE
  /\ m_fEpisodeReward = 0
  /\ m_cPreviousPosition = NoPosition
  /\ os = [created |-> FALSE, open |-> FALSE, closes |-> 0]
  /\ lastOp = "none"
  /\ trace = <<>>
  /\ sensed = NoSensed
  /\ outcome = NoOutcome
  /\ episodeRewards = <<>>
  /\ nEnded = 0
  /\ nIncrements = 0
  /\ pc = "idle"
  /\ toPeer = <<>>
  /\ wire = <<>>
  /\ nRecvFailed = 0
  /\ nIrregular = 0

\* The robot id Init computes from the robot's name.
RobotIdNum(name) ==
  LET pos == FindLastOf(name, Digits)
  IN IF pos # -1 THEN Stoi(Substr(name, pos)).value ELSE 0

\* Init(t_node) up to the first connect() of ConnectToQNetwork: the id, the
\* configuration, the first position, and socket().
ControllerInit ==
  /\ phase = "constructed"
  /\ lastOp = "none"
  /\ \E name \in RobotNames, steps \in MaxStepsChoices,
        episodes \in MaxEpisodesChoices, pos \in Positions, fd \in SocketResults :
       /\ m_nRobotIdNum' = RobotIdNum(name)
       /\ m_nMaxSteps' = steps
       /\ m_nMaxEpisodes' = episodes
       /\ m_cPreviousPosition' = pos
       /\ m_nSocket' = fd
       /\ os' = IF fd >= 0 THEN [created |-> TRUE, open |-> TRUE, closes |-> 0]
                 ELSE os
       /\ phase' = IF fd < 0 THEN "ready" ELSE "connecting"
       /\ sensed' = [pos |-> pos, prox |-> <<>>]
  /\ connect_i' = 0
  /\ lastOp' = "Init"
  /\ UNCHANGED <<m_nEpisode, m_nSteps, m_bConnected, m_bEpisodeDone,
                 m_fEpisodeReward, trace, outcome, episodeRewards, nEnded,
                 nIncrements>>
  /\ UNCHANGED stream

\* The test of the retry loop, for (i = 0; i < maxRetries; i++).
LoopContinuesOneMore(i) == i <= maxRetries
LoopContinues(i) == i < maxRetries

\* One turn of the retry loop of ConnectToQNetwork: connect() succeeds, or
\* fails and the loop sleeps; after maxRetries failures Init returns.
ConnectAttempt ==
  /\ phase = "connecting"
  /\ LoopContinues(connect_i)
  /\ \E connectOk \in BOOLEAN :
       IF connectOk
         THEN /\ m_bConnected' = TRUE
              /\ phase' = "ready"
              /\ connect_i' = 0
         ELSE /\ m_bConnected' = m_bConnected
              /\ phase' = IF LoopContinues(connect_i + 1) THEN "connecting" ELSE "ready"
              /\ connect_i' = IF LoopContinues(connect_i + 1) THEN connect_i + 1 ELSE 0
  /\ UNCHANGED <<m_nRobotIdNum, m_nEpisode, m_nSteps, m_nMaxSteps, m_nMaxEpisodes,
                 m_nSocket, m_bEpisodeDone, m_fEpisodeReward, m_cPreviousPosition,
                 os, history>>
  /\ UNCHANGED stream

\* ---------------------------------------------------------- ControlStep
\* What a library call may return: any value of set where the call is made,
\* and one fixed value where it is not made.
Returned(set, called) == IF called THEN set ELSE {CHOOSE x \in set : TRUE}

\* The first test of ControlStep: every episode is done.
AllEpisodesDoneOffByOne == m_nEpisode > m_nMaxEpisodes
AllEpisodesDone == m_nEpisode >= m_nMaxEpisodes

\* ControlStep() once every episode is done: stop the wheels and return.
StepFinished ==
  /\ phase = "ready"
  /\ lastOp = "none"
  /\ AllEpisodesDone
  /\ lastOp' = "Finished"
  /\ trace' = <<EvWheels(0, 0)>>
  /\ sensed' = NoSensed
  /\ outcome' = NoOutcome
  /\ UNCHANGED <<phase, connect_i, fields, os, episodeRewards, nEnded, nIncrements>>
  /\ UNCHANGED stream

\* ControlStep() after an episode ended: ResetEpisode() and return.
StepResetEpisode ==
  /\ phase = "ready"
  /\ lastOp = "none"
  /\ ~AllEpisodesDone
  /\ m_bEpisodeDone
  /\ \E pos \in Positions :
       LET r == ResetEpisode(pos)
       IN /\ m_nEpisode' = r.episode
          /\ m_nSteps' = r.steps
          /\ m_bEpisodeDone' = r.done
          /\ m_fEpisodeReward' = r.reward
          /\ m_cPreviousPosition' = r.previous
          /\ trace' = r.events
          /\ sensed' = [pos |-> pos, prox |-> <<>>]
  /\ lastOp' = "ResetEpisode"
  /\ outcome' = NoOutcome
  /\ episodeRewards' = <<>>
  /\ nIncrements' = nIncrements + 1
  /\ UNCHANGED <<phase, connect_i, m_nRobotIdNum, m_nMaxSteps, m_nMaxEpisodes,
                 m_nSocket, m_bConnected, os, nEnded>>
  /\ UNCHANGED stream

\* ControlStep() within an episode.  The sensors read pos and tReadings;
\* randv, sentState, buffer, sentReward and ack are what rand(), send(),
\* recv(), send() and recv() return, where they are called.
StepRunning ==
  /\ phase = "ready"
  /\ lastOp = "none"
  /\ ~AllEpisodesDone
  /\ ~m_bEpisodeDone
  /\ \E pos \in Positions, tReadings \in ProxReadings,
        randv \in Returned(RandValues, ~m_bConnected),
        sentState \in Returned(SendResults, m_bConnected),
        sentReward \in Returned(SendResults, m_bConnected),
        ack \in Returned(AckBuffers, m_bConnected) :
     \E buffer \in Returned(RecvBuffers, m_bConnected /\ sentState > 0) :
       LET steps == m_nSteps + 1
           get == GetActionFromQNetwork(GetState(pos, tReadings), randv,
                                        sentState, buffer)
           calc == CalculateReward(pos, m_cPreviousPosition, tReadings)
           ends == EpisodeEnds(calc.done, steps)
       IN /\ m_nSteps' = steps
          /\ sensed' = [pos |-> pos, prox |-> tReadings]
          /\ IF get.threw # "none"
               THEN \* the exception leaves ControlStep
                    /\ phase' = "aborted"
                    /\ lastOp' = get.threw
                    /\ trace' = get.events
                    /\ outcome' = NoOutcome
                    /\ UNCHANGED <<m_bEpisodeDone, m_fEpisodeReward,
                                   m_cPreviousPosition, episodeRewards, nEnded>>
               ELSE /\ phase' = phase
                    /\ lastOp' = "Running"
                    /\ trace' = get.events \o ExecuteAction(get.action)
                                   \o SendReward(calc.reward, calc.done,
                                                 sentReward, ack)
                    /\ outcome' = [action |-> get.action, reward |-> calc.reward,
                                   done |-> calc.done]
                    /\ m_fEpisodeReward' = m_fEpisodeReward + calc.reward
                    /\ m_cPreviousPosition' = calc.previous
                    /\ m_bEpisodeDone' = IF ends THEN TRUE ELSE m_bEpisodeDone
                    /\ episodeRewards' = Append(episodeRewards, calc.reward)
                    /\ nEnded' = IF ends THEN nEnded + 1 ELSE nEnded
  /\ UNCHANGED <<connect_i, m_nRobotIdNum, m_nEpisode, m_nMaxSteps, m_nMaxEpisodes,
                 m_nSocket, m_bConnected, os, nIncrements>>
  /\ UNCHANGED stream

\* ------------------------------------------------ Reset, Destroy, ~
\* Reset(): the host resets the experiment.
Reset ==
  /\ phase = "ready"
  /\ lastOp = "none"
  /\ \E pos \in Positions :
       /\ m_cPreviousPosition' = pos
       /\ sensed' = [pos |-> pos, prox |-> <<>>]
  /\ m_nEpisode' = 0
  /\ m_nSteps' = 0
  /\ m_bEpisodeDone' = FALSE
  /\ m_fEpisodeReward' = 0
  /\ lastOp' = "Reset"
  /\ trace' = <<EvWheels(0, 0)>>
  /\ outcome' = NoOutcome
  /\ episodeRewards' = <<>>
  /\ nEnded' = 0
  /\ nIncrements' = 0
  /\ UNCHANGED <<phase, connect_i, m_nRobotIdNum, m_nMaxSteps, m_nMaxEpisodes,
                 m_nSocket, m_bConnected, os>>
  /\ UNCHANGED stream

\* Destroy(): CloseConnection().
Destroy ==
  /\ phase \in {"ready", "aborted"}
  /\ lastOp = "none"
  /\ m_nSocket' = CloseConnection.socket
  /\ m_bConnected' = CloseConnection.connected
  /\ os' = CloseConnection.os
  /\ trace' = CloseConnection.events
  /\ lastOp' = "Destroy"
  /\ sensed' = NoSensed
  /\ outcome' = NoOutcome
  /\ UNCHANGED <<phase, connect_i, m_nRobotIdNum, m_nEpisode, m_nSteps, m_nMaxSteps,
                 m_nMaxEpisodes, m_bEpisodeDone, m_fEpisodeReward,
                 m_cPreviousPosition, episodeRewards, nEnded, nIncrements>>
  /\ UNCHANGED stream

\* ~QSwarmController(): CloseConnection(), and the object is gone.
Destructor ==
  /\ phase \in {"constructed", "ready", "aborted"}
  /\ lastOp = "none"
  /\ phase' = "deleted"
  /\ m_nSocket' = CloseConnection.socket
  /\ m_bConnected' = CloseConnection.connected
  /\ os' = CloseConnection.os
  /\ trace' = CloseConnection.events
  /\ lastOp' = "~QSwarmController"
  /\ sensed' = NoSensed
  /\ outcome' = NoOutcome
  /\ UNCHANGED <<connect_i, m_nRobotIdNum, m_nEpisode, m_nSteps, m_nMaxSteps,
                 m_nMaxEpisodes, m_bEpisodeDone, m_fEpisodeReward,
                 m_cPreviousPosition, episodeRewards, nEnded, nIncrements>>
  /\ UNCHANGED stream

\* The handler has returned (or its exception has reached the host): the
\* host goes on, and the record of the call is dropped.
HostContinues ==
  /\ phase # "connecting"
  /\ lastOp # "none"
  /\ lastOp' = "none"
  /\ trace' = <<>>
  /\ sensed' = NoSensed
  /\ outcome' = NoOutcome
  /\ UNCHANGED <<phase, connect_i, fields, os, episodeRewards, nEnded, nIncrements>>
  /\ UNCHANGED stream

Next ==
  \/ HostContinues
  \/ ControllerInit
  \/ ConnectAttempt
  \/ StepFinished
  \/ StepResetEpisode
  \/ StepRunning
  \/ Reset
  \/ Destroy
  \/ Destructor

Spec == Init /\ [][Next]_vars

\* =================================================================
\* Properties
\* =================================================================
\* lastOp after a call of ControlStep: the branch it took, or the exception
\* that left it.
TickOps == {"Finished", "ResetEpisode", "Running", "invalid_argument", "out_of_range"}
RunningOps == {"Running", "invalid_argument", "out_of_range"}

\* A trace with a message sent or a receive made.
Traffic(t) == \E k \in 1..Len(t) : IsSend(t[k]) \/ IsRecv(t[k])

RECURSIVE Sum(_)
Sum(s) == IF s = <<>> THEN 0 ELSE s[1] + Sum(Tail(s))

\* C1: Finished is terminal for ticks.  In a state with
\* m_nEpisode >= m_nMaxEpisodes a tick takes the Finished branch: it issues
\* the one wheel command (0, 0), sends and receives nothing and leaves
\* m_nEpisode, m_nSteps, m_fEpisodeReward, m_bEpisodeDone and
\* m_cPreviousPosition as they are; and no step but the host's Reset leaves
\* such a state, so every later tick does the same.
C1_FinishedIsTerminal ==
  [][ (phase = "ready" /\ m_nEpisode >= m_nMaxEpisodes) =>
        /\ lastOp' \in TickOps =>
             /\ lastOp' = "Finished"
             /\ trace' = <<EvWheels(0, 0)>>
             /\ UNCHANGED <<m_nEpisode, m_nSteps, m_fEpisodeReward,
                            m_bEpisodeDone, m_cPreviousPosition>>
        /\ lastOp' # "Reset" => m_nEpisode' >= m_nMaxEpisodes' ]_vars

\* A Finished tick after the last of MaxEpisodes episodes of a connected
\* controller.
C1_Witness ==
  /\ lastOp = "Finished"
  /\ m_bConnected
  /\ m_nMaxEpisodes = MaxEpisodes
  /\ m_nEpisode = m_nMaxEpisodes
  /\ trace = <<EvWheels(0, 0)>>

\* C2: episode boundary.  m_nEpisode changes only in a reset tick (one that
\* starts with m_nEpisode < m_nMaxEpisodes and m_bEpisodeDone) or in the
\* host's Reset; a reset tick adds exactly 1 to m_nEpisode, zeroes m_nSteps
\* and m_fEpisodeReward, clears m_bEpisodeDone, stores the sensed position
\* in m_cPreviousPosition and sends and receives nothing.  Since Init or the
\* last Reset, the episodes ended are the increments made, plus the one
\* ended episode whose reset tick is still to come, and the increments
\* never exceed m_nMaxEpisodes.
C2_EpisodeBoundary ==
  /\ [](/\ nEnded = nIncrements + (IF m_bEpisodeDone THEN 1 ELSE 0)
        /\ nIncrements = m_nEpisode
        /\ nIncrements <= m_nMaxEpisodes)
  /\ [][ /\ m_nEpisode' # m_nEpisode =>
              \/ lastOp' = "Reset"
              \/ /\ lastOp' = "ResetEpisode"
                 /\ m_nEpisode < m_nMaxEpisodes
                 /\ m_bEpisodeDone
         /\ (lastOp' \in TickOps /\ m_nEpisode < m_nMaxEpisodes /\ m_bEpisodeDone) =>
              /\ lastOp' = "ResetEpisode"
              /\ m_nEpisode' = m_nEpisode + 1
              /\ m_nSteps' = 0
              /\ m_fEpisodeReward' = 0
              /\ ~m_bEpisodeDone'
              /\ m_cPreviousPosition' = sensed'.pos
              /\ ~Traffic(trace')
         /\ nEnded' > nEnded => (~m_bEpisodeDone /\ m_bEpisodeDone') ]_vars

\* The second reset tick of a run: two episodes ended, two increments.
C2_Witness ==
  /\ lastOp = "ResetEpisode"
  /\ m_bConnected
  /\ m_nEpisode = 2
  /\ nEnded = 2
  /\ nIncrements = 2

\* C3: step limit and reward accumulation.  A Running tick adds 1 to
\* m_nSteps and sets m_bEpisodeDone exactly when the evaluator returned done
\* or m_nSteps, after the increment, is >= m_nMaxSteps; m_fEpisodeReward is
\* the sum of the rewards of the episode's ticks; and for m_nMaxSteps >= 1
\* an episode whose ticks all earned the step penalty is not done before
\* tick m_nMaxSteps and is done at it, with m_fEpisodeReward equal to
\* m_nMaxSteps step penalties (-1 each, in tenths).
C3_StepLimitAndReward ==
  /\ [](/\ m_fEpisodeReward = Sum(episodeRewards)
        /\ (m_nMaxSteps >= 1 /\ \A k \in 1..Len(episodeRewards) : episodeRewards[k] = -1) =>
             /\ Len(episodeRewards) <= m_nMaxSteps
             /\ Len(episodeRewards) < m_nMaxSteps => ~m_bEpisodeDone
             /\ Len(episodeRewards) = m_nMaxSteps =>
                  /\ m_bEpisodeDone
                  /\ m_nSteps = m_nMaxSteps
                  /\ m_fEpisodeReward = (-1) * m_nMaxSteps)
  /\ [][ lastOp' = "Running" =>
           /\ ~m_bEpisodeDone
           /\ m_nSteps' = m_nSteps + 1
           /\ m_bEpisodeDone' = (outcome'.done \/ m_nSteps' >= m_nMaxSteps)
           /\ m_fEpisodeReward' = m_fEpisodeReward + outcome'.reward ]_vars

\* An episode of MaxSteps ticks that ends by the step limit alone.
C3_Witness ==
  /\ lastOp = "Running"
  /\ m_nMaxSteps = MaxSteps
  /\ m_nSteps = m_nMaxSteps
  /\ ~outcome.done
  /\ m_bEpisodeDone
  /\ m_fEpisodeReward = (-1) * MaxSteps

\* What the evaluator is to see in a tick: the agent within 0.5 of the goal,
\* moved less than 0.01 since the stored position, a reading above 0.9.
NearGoal(pos) == SquareLength(pos, <<3600, 3600>>) < 100 * 100
Stalled(pos, previous) == SquareLength(pos, previous) < 2 * 2
ProxHigh(readings) == \E k \in 1..Len(readings) : readings[k] > 90

\* The reference table of rewards, in tenths.
ReferenceReward(near, stalled, high) ==
  IF near THEN [reward |-> 100, done |-> TRUE]
  ELSE IF stalled \/ high THEN [reward |-> -50, done |-> TRUE]
  ELSE [reward |-> -1, done |-> FALSE]

\* C4: the reward of a Running tick is the reference table's, the goal
\* first: (+10.0, done) whenever the agent is near the goal, also when it
\* stalled or a reading is high; else (-5.0, done) when it stalled or a
\* reading is strictly above 0.9; else (-0.1, not done).
C4_RewardTable ==
  [][ lastOp' = "Running" =>
        LET ref == ReferenceReward(NearGoal(sensed'.pos),
                                   Stalled(sensed'.pos, m_cPreviousPosition),
                                   ProxHigh(sensed'.prox))
        IN outcome'.reward = ref.reward /\ outcome'.done = ref.done ]_vars

\* A tick near the goal in which the agent did not move and a sensor reads
\* 0.95: the reward is the goal's.
C4_Witness ==
  /\ lastOp = "Running"
  /\ NearGoal(sensed.pos)
  /\ Stalled(sensed.pos, m_cPreviousPosition)
  /\ ProxHigh(sensed.prox)
  /\ outcome.reward = 100
  /\ outcome.done

\* The STATE send of a tick failed; the receive for the action came back
\* empty.
IsStateSend(e) == IsSend(e) /\ e[2].type = "STATE"
StateSendFailed(t) == Len(t) >= 1 /\ IsStateSend(t[1]) /\ t[1][3] <= 0
ActionReceiveEmpty(t) ==
  /\ Len(t) >= 2
  /\ IsStateSend(t[1])
  /\ t[1][3] > 0
  /\ IsRecv(t[2])
  /\ t[2][2] \in {<<>>, <<"\n">>}

\* C5: action-request fallback.  A tick of a connected controller whose
\* STATE send fails, or whose receive for the action returns nothing,
\* completes as a Running tick: it issues the one wheel command (+v, +v),
\* adds 1 to m_nSteps, evaluates the reward by the reference table and adds
\* it to m_fEpisodeReward, and decides m_bEpisodeDone.
C5_RequestFallback ==
  [][ (m_bConnected /\ lastOp' \in RunningOps
         /\ (StateSendFailed(trace') \/ ActionReceiveEmpty(trace'))) =>
        LET ref == ReferenceReward(NearGoal(sensed'.pos),
                                   Stalled(sensed'.pos, m_cPreviousPosition),
                                   ProxHigh(sensed'.prox))
        IN /\ lastOp' = "Running"
           /\ outcome'.action = 0
           /\ Count(trace', IsWheels) = 1
           /\ \E k \in 1..Len(trace') : trace'[k] = EvWheels(2, 2)
           /\ m_nSteps' = m_nSteps + 1
           /\ outcome'.reward = ref.reward
           /\ m_fEpisodeReward' = m_fEpisodeReward + ref.reward
           /\ m_bEpisodeDone' = (ref.done \/ m_nSteps' >= m_nMaxSteps) ]_vars

\* A completed tick whose receive for the action returned nothing, and one
\* whose STATE send failed, are both reached; the witness is the first.
C5_Witness ==
  /\ lastOp = "Running"
  /\ m_bConnected
  /\ ActionReceiveEmpty(trace)
  /\ m_nSteps = 2
  /\ \E k \in 1..Len(trace) : trace[k] = EvWheels(2, 2)

\* The response ReceiveMessage returned for the action, in a tick that sent
\* its STATE and received.
HasActionResponse(t) ==
  Len(t) >= 2 /\ IsStateSend(t[1]) /\ t[1][3] > 0 /\ IsRecv(t[2])
ActionResponse(t) == StripNewline(t[2][2])

\* A string that writes an integer: an optional sign, then digits only.
Unsigned(s) == IF s # <<>> /\ s[1] \in {"+", "-"} THEN Tail(s) ELSE s
WritesInteger(s) ==
  Unsigned(s) # <<>> /\ \A k \in 1..Len(Unsigned(s)) : Unsigned(s)[k] \in Digits
RECURSIVE DecimalValue(_)
DecimalValue(digits) ==
  IF digits = <<>> THEN 0
  ELSE 10 * DecimalValue(SubSeq(digits, 1, Len(digits) - 1))
         + DigitVal[digits[Len(digits)]]
IntegerWritten(s) ==
  IF s[1] = "-" THEN 0 - DecimalValue(Unsigned(s)) ELSE DecimalValue(Unsigned(s))

AfterFirstBar(response) == Substr(response, Find(response, "|") + 1)
Malformed(response) ==
  Find(response, "|") = -1 \/ ~WritesInteger(AfterFirstBar(response))
WellFormed(response) ==
  /\ Find(response, "|") = Len(Prefix)
  /\ SubSeq(response, 1, Len(Prefix)) = Prefix
  /\ WritesInteger(AfterFirstBar(response))

\* C6: malformed action reply.  A tick whose non-empty reply has no "|", or
\* whose text after the first "|" writes no integer, completes as a Running
\* tick with action 0; no exception leaves ControlStep.
C6_MalformedReplyFallsBack ==
  (lastOp \in RunningOps /\ HasActionResponse(trace)
     /\ ActionResponse(trace) # <<>> /\ Malformed(ActionResponse(trace))) =>
    (lastOp = "Running" /\ outcome.action = 0)

\* The wheel command of the action table.
ReferenceWheels(n) ==
  IF n = 0 THEN EvWheels(2, 2)
  ELSE IF n = 1 THEN EvWheels(-1, 1)
  ELSE IF n = 2 THEN EvWheels(1, -1)
  ELSE IF n = 3 THEN EvWheels(0, 0)
  ELSE EvWheels(2, 2)

\* C7: fail-open action mapping.  A tick whose reply is ACTION|n, for any
\* integer n, completes as a Running tick that issues exactly one wheel
\* command, the action table's for n, (+v, +v) for every n outside 0..3,
\* and executing the action changes nothing else.
C7_FailOpenMapping ==
  (lastOp \in RunningOps /\ HasActionResponse(trace)
     /\ WellFormed(ActionResponse(trace))) =>
    /\ lastOp = "Running"
    /\ Count(trace, IsWheels) = 1
    /\ trace[3] = ReferenceWheels(IntegerWritten(AfterFirstBar(ActionResponse(trace))))

\* C8: connect with retry, and degraded mode.  While Init connects, fewer
\* than 10 attempts have failed; an attempt that succeeds ends the loop with
\* m_bConnected, one that fails is followed by another unless it was the
\* 10th, which ends Init with m_bConnected false; m_bConnected is set
\* nowhere else.  A tick of a controller that is not connected, within an
\* episode, completes as a Running tick: its action is one of 0..3, it
\* sends and receives nothing, and the bookkeeping is a connected tick's.
C8_ConnectRetryAndDegraded ==
  /\ [](phase = "connecting" => (connect_i < 10 /\ ~m_bConnected /\ m_nSocket >= 0))
  /\ [][ /\ phase = "connecting" =>
              \/ m_bConnected' /\ phase' = "ready"
              \/ /\ ~m_bConnected'
                 /\ connect_i < 9
                 /\ phase' = "connecting"
                 /\ connect_i' = connect_i + 1
              \/ ~m_bConnected' /\ connect_i = 9 /\ phase' = "ready"
         /\ (m_bConnected' /\ ~m_bConnected) => phase = "connecting"
         /\ (~m_bConnected /\ lastOp' \in RunningOps) =>
              LET ref == ReferenceReward(NearGoal(sensed'.pos),
                                         Stalled(sensed'.pos, m_cPreviousPosition),
                                         ProxHigh(sensed'.prox))
              IN /\ lastOp' = "Running"
                 /\ outcome'.action \in 0..3
                 /\ ~Traffic(trace')
                 /\ trace' = <<ReferenceWheels(outcome'.action)>>
                 /\ m_nSteps' = m_nSteps + 1
                 /\ outcome'.reward = ref.reward
                 /\ m_fEpisodeReward' = m_fEpisodeReward + ref.reward
                 /\ m_bEpisodeDone' = (ref.done \/ m_nSteps' >= m_nMaxSteps) ]_vars

\* A tick of a controller whose socket was created and whose 10 attempts
\* failed (the descriptor is open, and nothing is connected): it stops.
C8_Witness ==
  /\ lastOp = "Running"
  /\ ~m_bConnected
  /\ m_nSocket >= 0
  /\ os.open
  /\ outcome.action = 3
  /\ m_nSteps = 2

\* C9: connection invariant.  In every state m_bConnected implies that
\* m_nSocket is a descriptor (>= 0), the one socket() gave, and that it has
\* not been released.
C9_ConnectedImpliesValidSocket ==
  m_bConnected => (m_nSocket >= 0 /\ os.created /\ os.open /\ os.closes = 0)

\* A connected controller after a completed tick with traffic.
C9_Witness ==
  /\ m_bConnected
  /\ lastOp = "Running"
  /\ Traffic(trace)
  /\ m_nSocket = 0

\* C10: teardown releases the descriptor exactly once.  The descriptor is
\* never released twice; after Destroy, and after the destructor, a
\* descriptor that socket() gave has been released once (also when no
\* attempt to connect succeeded), and without one nothing was released; a
\* CloseConnection that finds m_nSocket = -1 leaves m_nSocket = -1 and
\* m_bConnected false, and releases nothing.
C10_ReleasedExactlyOnce ==
  /\ [](/\ os.closes <= 1
        /\ ~os.created => os.closes = 0
        /\ (phase = "deleted" \/ lastOp = "Destroy") =>
             /\ m_nSocket = -1
             /\ ~m_bConnected
             /\ os.created => (os.closes = 1 /\ ~os.open))
  /\ [][ (lastOp' \in {"Destroy", "~QSwarmController"} /\ m_nSocket = -1) =>
           /\ m_nSocket' = -1
           /\ ~m_bConnected'
           /\ os' = os
           /\ trace' = <<>> ]_vars

\* The destructor after Destroy: its CloseConnection is the second one and
\* releases nothing; the descriptor has been released once.
C10_Witness ==
  /\ phase = "deleted"
  /\ lastOp = "~QSwarmController"
  /\ trace = <<>>
  /\ os.created
  /\ os.closes = 1

\* A send that failed, or a receive that returned the empty string.
IOFailed(e) ==
  \/ IsSend(e) /\ e[3] <= 0
  \/ IsRecv(e) /\ StripNewline(e[2]) = <<>>

\* C11: connection unusable after a failure.  Once a send has failed or a
\* receive has returned the empty string, no later send or receive is made
\* on the connection; here for the sends and receives of the same tick (no
\* handler but Init connects, so there is no reconnect cycle in between).
C11_UnusableAfterFailure ==
  \A j, k \in 1..Len(trace) :
    (j < k /\ IOFailed(trace[j])) => ~(IsSend(trace[k]) \/ IsRecv(trace[k]))

\* The bookkeeping of the controller, and what a tick makes of it as a
\* function of the bookkeeping before the tick, the configuration and what
\* the sensors read in the tick, and of nothing else.
Bookkeeping ==
  <<m_nEpisode, m_nSteps, m_fEpisodeReward, m_bEpisodeDone, m_cPreviousPosition>>
ReferenceTick(pos, prox) ==
  IF m_nEpisode >= m_nMaxEpisodes THEN Bookkeeping
  ELSE IF m_bEpisodeDone THEN <<m_nEpisode + 1, 0, 0, FALSE, pos>>
  ELSE LET ref == ReferenceReward(NearGoal(pos), Stalled(pos, m_cPreviousPosition),
                                  ProxHigh(prox))
       IN <<m_nEpisode, m_nSteps + 1, m_fEpisodeReward + ref.reward,
            ref.done \/ m_nSteps + 1 >= m_nMaxSteps,
            IF NearGoal(pos) THEN m_cPreviousPosition ELSE pos>>

\* A tick whose transport did nothing but succeed or fail and whose reply,
\* if one came, is empty or ACTION|n for an integer n.
PeerVariesOnlyActionId(t) ==
  HasActionResponse(t) =>
    ActionResponse(t) = <<>> \/ WellFormed(ActionResponse(t))

\* C12: local bookkeeping is independent of the peer and the transport.
\* After every tick m_nEpisode, m_nSteps, m_fEpisodeReward and
\* m_bEpisodeDone (and m_cPreviousPosition, which the next evaluation
\* reads) are the function ReferenceTick of their values before the tick
\* and of the sensor readings, whatever the sends returned, whatever was
\* received and whichever action id the peer chose; two runs with the same
\* configuration and the same observations then agree after every tick.
C12_BookkeepingIndependentOfPeer ==
  [][ (lastOp' \in TickOps /\ PeerVariesOnlyActionId(trace')) =>
        Bookkeeping' = ReferenceTick(sensed'.pos, sensed'.prox) ]_vars

\* =================================================================
\* ControlStep with its blocking recv() calls, the peer and the stream
\* =================================================================
\* The Running tick of a connected controller in four steps, so that the
\* two recv() calls it waits in, the peer that answers and the byte stream
\* that delivers the answers are visible between them.

\* The size of the buffer of ReceiveMessage; recv() fills at most one less.
BufferSize == 4096

\* What the sensors read here: two positions, no obstacle in range.
StreamPositions == {<<0, 0>>, <<2, 0>>}
NoReadings == [k \in 1..NumSensors |-> 0]

\* The peer: one reply line for each message it receives, in order,
\* ACTION|a for a STATE message and OK for a REWARD message.
PeerActions == {1, 2}
ActionLine(a) == Prefix \o <<"|", CHOOSE c \in Digits : DigitVal[c] = a, "\n">>
AckLine == <<"O", "K", "\n">>
PeerLines == {ActionLine(a) : a \in PeerActions} \cup {AckLine}
PeerReply(message, a) == IF message.type = "STATE" THEN ActionLine(a) ELSE AckLine

\* A buffer that holds one whole line and nothing else.
IsWholeLine(buffer) ==
  /\ buffer # <<>>
  /\ buffer[Len(buffer)] = "\n"
  /\ \A k \in 1..(Len(buffer) - 1) : buffer[k] # "\n"

\* The length of the first line of the unread bytes (all of them, if no
\* line ends there).
FirstLine(unread) ==
  IF Find(unread, "\n") = -1 THEN Len(unread) ELSE Find(unread, "\n") + 1

\* What one recv() may return with these bytes unread: 0 stands for a
\* return value <= 0, n > 0 for the first n bytes, at most BufferSize - 1.
\* Of the lengths the stream may deliver these are taken: the first line
\* (one line per read), the first half of it (a line split across reads),
\* and all the unread bytes (lines coalesced into one read); the calls
\* that fail and the reads that are not one whole line are counted and
\* bounded.
RecvReturns(unread) ==
  {n \in {0, FirstLine(unread) \div 2, FirstLine(unread), Len(unread)} :
     /\ n < BufferSize
     /\ n = 0 => nRecvFailed < MaxRecvFailures
     /\ (n > 0 /\ ~IsWholeLine(SubSeq(unread, 1, n))) =>
          nIrregular < MaxIrregularReads}

\* The state Init(t_node) leaves once connect() has succeeded and the host
\* has gone on.
InitStream ==
  /\ phase = "ready"
  /\ connect_i = 0
  /\ \E name \in RobotNames : m_nRobotIdNum = RobotIdNum(name)
  /\ m_nEpisode = 0
  /\ m_nSteps = 0
  /\ m_nMaxSteps = MaxSteps
  /\ m_nMaxEpisodes = MaxEpisodes
  /\ m_nSocket = 3
  /\ m_bConnected = TRUE
  /\ m_bEpisodeDone = FALSE
  /\ m_fEpisodeReward = 0
  /\ m_cPreviousPosition \in StreamPositions
  /\ os = [created |-> TRUE, open |-> TRUE, closes |-> 0]
  /\ lastOp = "none"
  /\ trace = <<>>
  /\ sensed = NoSensed
  /\ outcome = NoOutcome
  /\ episodeRewards = <<>>
  /\ nEnded = 0
  /\ nIncrements = 0
  /\ pc = "idle"
  /\ toPeer = <<>>
  /\ wire = <<>>
  /\ nRecvFailed = 0
  /\ nIrregular = 0

\* ControlStep() within an episode, up to the recv() for the action:
\* m_nSteps++, GetState(), and the STATE send of GetActionFromQNetwork.
\* After a failed send the action is 0 and no recv() is made.
BeginRunning ==
  /\ phase = "ready"
  /\ lastOp = "none"
  /\ pc = "idle"
  /\ ~AllEpisodesDone
  /\ ~m_bEpisodeDone
  /\ m_bConnected
  /\ \E pos \in StreamPositions, sent \in SendResults :
       LET message == StateMessage(GetState(pos, NoReadings))
           snd == SendMessage(message, sent)
       IN /\ m_nSteps' = m_nSteps + 1
          /\ sensed' = [pos |-> pos, prox |-> NoReadings]
          /\ trace' = snd.events
          /\ toPeer' = IF snd.result THEN Append(toPeer, message) ELSE toPeer
          /\ pc' = IF snd.result THEN "recvAction" ELSE "act"
          /\ outcome' = IF snd.result THEN NoOutcome
                        ELSE [NoOutcome EXCEPT !.action = 0]
  /\ UNCHANGED <<phase, connect_i, m_nRobotIdNum, m_nEpisode, m_nMaxSteps,
                 m_nMaxEpisodes, m_nSocket, m_bConnected, m_bEpisodeDone,
                 m_fEpisodeReward, m_cPreviousPosition, os, lastOp,
                 episodeRewards, nEnded, nIncrements, wire, nRecvFailed,
                 nIrregular>>

\* recv() returns in ReceiveMessage for the action, and
\* GetActionFromQNetwork parses the response: an empty response gives
\* action 0, an exception of std::stoi leaves ControlStep.
ReceiveAction ==
  /\ pc = "recvAction"
  /\ \E n \in RecvReturns(wire) :
       LET buffer == SubSeq(wire, 1, n)
           rcv == ReceiveMessage(buffer)
           parsed == ParseAction(rcv.result)
           threw == IF rcv.result = <<>> THEN "none" ELSE parsed.threw
       IN /\ wire' = SubSeq(wire, n + 1, Len(wire))
          /\ nRecvFailed' = IF n = 0 THEN nRecvFailed + 1 ELSE nRecvFailed
          /\ nIrregular' = IF n > 0 /\ ~IsWholeLine(buffer) THEN nIrregular + 1
                            ELSE nIrregular
          /\ trace' = trace \o rcv.events
          /\ IF threw # "none"
               THEN /\ phase' = "aborted"
                    /\ lastOp' = threw
                    /\ pc' = "idle"
                    /\ outcome' = outcome
               ELSE /\ phase' = phase
                    /\ lastOp' = lastOp
                    /\ pc' = "act"
                    /\ outcome' = [outcome EXCEPT !.action =
                                     IF rcv.result = <<>> THEN 0 ELSE parsed.value]
  /\ UNCHANGED <<connect_i, fields, os, sensed, episodeRewards, nEnded,
                 nIncrements, toPeer>>

\* ControlStep() from ExecuteAction to the recv() for the acknowledgment:
\* the wheel command, CalculateReward, the accumulation, and the REWARD
\* send of SendReward, whose result is ignored.
ActAndSendReward ==
  /\ pc = "act"
  /\ \E sent \in SendResults :
       LET calc == CalculateReward(sensed.pos, m_cPreviousPosition, sensed.prox)
           message == RewardMessage(calc.reward, calc.done)
           snd == SendMessage(message, sent)
       IN /\ trace' = trace \o ExecuteAction(outcome.action) \o snd.events
          /\ outcome' = [action |-> outcome.action, reward |-> calc.reward,
                         done |-> calc.done]
          /\ m_fEpisodeReward' = m_fEpisodeReward + calc.reward
          /\ m_cPreviousPosition' = calc.previous
          /\ episodeRewards' = Append(episodeRewards, calc.reward)
          /\ toPeer' = IF snd.result THEN Append(toPeer, message) ELSE toPeer
  /\ pc' = "recvAck"
  /\ UNCHANGED <<phase, connect_i, m_nRobotIdNum, m_nEpisode, m_nSteps,
                 m_nMaxSteps, m_nMaxEpisodes, m_nSocket, m_bConnected,
                 m_bEpisodeDone, os, lastOp, sensed, nEnded, nIncrements, wire,
                 nRecvFailed, nIrregular>>

\* recv() returns in ReceiveMessage for the acknowledgment, whose content is
\* ignored, and ControlStep decides m_bEpisodeDone and returns.
ReceiveAck ==
  /\ pc = "recvAck"
  /\ \E n \in RecvReturns(wire) :
       LET buffer == SubSeq(wire, 1, n)
           rcv == ReceiveMessage(buffer)
       IN /\ wire' = SubSeq(wire, n + 1, Len(wire))
          /\ nRecvFailed' = IF n = 0 THEN nRecvFailed + 1 ELSE nRecvFailed
          /\ nIrregular' = IF n > 0 /\ ~IsWholeLine(buffer) THEN nIrregular + 1
                            ELSE nIrregular
          /\ trace' = trace \o rcv.events
  /\ m_bEpisodeDone' = IF EpisodeEnds(outcome.done, m_nSteps) THEN TRUE
                       ELSE m_bEpisodeDone
  /\ nEnded' = IF EpisodeEnds(outcome.done, m_nSteps) THEN nEnded + 1 ELSE nEnded
  /\ pc' = "idle"
  /\ lastOp' = "Running"
  /\ UNCHANGED <<phase, connect_i, m_nRobotIdNum, m_nEpisode, m_nSteps,
                 m_nMaxSteps, m_nMaxEpisodes, m_nSocket, m_bConnected,
                 m_fEpisodeReward, m_cPreviousPosition, os, sensed, outcome,
                 episodeRewards, nIncrements, toPeer>>

\* The peer answers the oldest message it has not answered yet.
PeerReplies ==
  /\ toPeer # <<>>
  /\ \E a \in Returned(PeerActions, Head(toPeer).type = "STATE") :
       wire' = wire \o PeerReply(Head(toPeer), a)
  /\ toPeer' = Tail(toPeer)
  /\ UNCHANGED <<phase, connect_i, fields, os, history, pc, nRecvFailed,
                 nIrregular>>

NextStream ==
  \/ HostContinues
  \/ pc = "idle" /\ StepFinished
  \/ pc = "idle" /\ StepResetEpisode
  \/ BeginRunning
  \/ ReceiveAction
  \/ ActAndSendReward
  \/ ReceiveAck
  \/ PeerReplies

SpecStream == InitStream /\ [][NextStream]_vars

\* The characters of a line up to its newline: one complete message.
MessageOf(line) == SubSeq(line, 1, Len(line) - 1)

\* C13: receive framing.  With a peer that sends whole lines, every
\* non-empty result of ReceiveMessage is exactly one complete message of the
\* peer, however recv() delivers the bytes (one line per read, lines
\* coalesced into one read, a line split across reads): it holds no
\* newline, spans no two messages and is no fragment of one.
C13_ReceiveFraming ==
  \A k \in 1..Len(trace) :
    (IsRecv(trace[k]) /\ ReceiveMessage(trace[k][2]).result # <<>>) =>
      \E line \in PeerLines : ReceiveMessage(trace[k][2]).result = MessageOf(line)

\* The integer written by the maximal run of digits at the end of a name,
\* 0 when the name ends in no digit.
RECURSIVE TrailingDigits(_)
TrailingDigits(name) ==
  IF name = <<>> \/ name[Len(name)] \notin Digits THEN <<>>
  ELSE Append(TrailingDigits(SubSeq(name, 1, Len(name) - 1)), name[Len(name)])
TrailingNumber(name) == DecimalValue(TrailingDigits(name))

\* C14: agent identity.  Once Init has run, m_nRobotIdNum is the integer
\* written by the trailing digits of the robot's name (fb0 gives 0, fb12
\* gives 12, a name without digits gives 0), no later step changes it, and
\* it is the id field of every STATE and REWARD message sent.
C14_AgentIdentity ==
  /\ phase # "constructed" =>
       m_nRobotIdNum \in {TrailingNumber(name) : name \in RobotNames}
  /\ \A k \in 1..Len(trace) : IsSend(trace[k]) => trace[k][2].id = m_nRobotIdNum

\* C15: the episode clock never freezes.  A Running tick that has started
\* completes, whatever the transport and the peer do.  A tick that waits in
\* recv() can go on only when bytes arrive or the connection fails, so as a
\* property of states: whenever ControlStep waits in recv(), there are
\* bytes to read or a message the peer still has to answer.  (In a state
\* where neither is there, the runs in which the connection stays up never
\* leave recv().)
C15_ClockNeverFreezes ==
  pc \in {"recvAction", "recvAck"} => (wire # <<>> \/ toPeer # <<>>)

\* C16 as stated: m_cPreviousPosition is updated unconditionally.  After
\* every Running tick, whatever the evaluation found (goal, collision or
\* plain step), m_cPreviousPosition is the position sensed in that tick.
C16_UpdatedUnconditionally ==
  lastOp = "Running" => m_cPreviousPosition = sensed.pos

\* C16 amended: m_cPreviousPosition is updated by the collision test, which
\* runs only when the goal is not reached.  After a Running tick that did
\* not reach the goal, m_cPreviousPosition is the position sensed in that
\* tick, whether the tick found a collision or not; a Running tick that
\* reached the goal leaves m_cPreviousPosition as it was.
C16_UpdatedUnlessGoal ==
  [][ lastOp' = "Running" =>
        m_cPreviousPosition' = IF NearGoal(sensed'.pos) THEN m_cPreviousPosition
                               ELSE sensed'.pos ]_vars

\* After a tick that reached the goal, m_cPreviousPosition is not the
\* position sensed in it.
C16_Witness ==
  /\ lastOp = "Running"
  /\ NearGoal(sensed.pos)
  /\ outcome.reward = GoalReward
  /\ m_cPreviousPosition # sensed.pos

\* A trace in which every send succeeded and every receive returned a
\* non-empty message.
IsRewardSend(e) == IsSend(e) /\ e[2].type = "REWARD"
AllIOSucceeded(t) ==
  \A k \in 1..Len(t) :
    /\ IsSend(t[k]) => t[k][3] > 0
    /\ IsRecv(t[k]) => StripNewline(t[k][2]) # <<>>

\* C17: per-tick event order.  A Running tick of a connected controller in
\* which all I/O succeeds does exactly this, in this order: one STATE send,
\* one receive, one wheel command, one REWARD send, one receive.  m_nSteps
\* is incremented by the time the STATE message is sent (the step that
\* sends it has added 1, and the tick then waits for the action), and
\* m_bEpisodeDone is set only in the step in which the receive for the
\* acknowledgment returns (it is still false while the tick waits for it).  A
\* reset tick and a Finished tick send nothing.
C17_EventOrder ==
  /\ [](/\ (lastOp = "Running" /\ AllIOSucceeded(trace)) =>
             /\ Len(trace) = 5
             /\ IsStateSend(trace[1])
             /\ IsRecv(trace[2])
             /\ IsWheels(trace[3])
             /\ IsRewardSend(trace[4])
             /\ IsRecv(trace[5])
        /\ pc # "idle" => ~m_bEpisodeDone
        /\ pc = "recvAction" => (Len(trace) = 1 /\ IsStateSend(trace[1]))
        /\ lastOp \in {"ResetEpisode", "Finished"} =>
             \A k \in 1..Len(trace) : ~IsSend(trace[k]) /\ ~IsRecv(trace[k]))
  /\ [][ /\ (pc = "idle" /\ pc' # "idle") =>
              /\ m_nSteps' = m_nSteps + 1
              /\ Len(trace') = 1
              /\ IsStateSend(trace'[1])
         /\ (~m_bEpisodeDone /\ m_bEpisodeDone') =>
              /\ pc = "recvAck"
              /\ pc' = "idle"
              /\ Len(trace') = Len(trace) + 1
              /\ IsRecv(trace'[Len(trace')]) ]_vars

\* A completed tick in which all I/O succeeded and which ended its episode.
C17_Witness ==
  /\ lastOp = "Running"
  /\ AllIOSucceeded(trace)
  /\ Len(trace) = 5
  /\ trace[2][2] \in PeerLines
  /\ trace[5][2] = AckLine
  /\ m_bEpisodeDone
  /\ m_nSteps = MaxSteps

\* The bytes a step's recv() took from the stream.
Consumed == SubSeq(wire, 1, Len(wire) - Len(wire'))

\* C18: request and response stay paired.  With the peer that sends one
\* reply line for each message it receives, in order, and a stream that
\* delivers one whole line per read, also after a recv() that returned
\* nothing once, in a tick whose sends succeed: the line the tick reads for its action is an ACTION line,
\* the line it reads for its acknowledgment is the OK line, and each is the
\* reply to the message the tick has just sent, that is, no older reply is
\* left unread and no earlier message is still unanswered.
C18_RepliesPaired ==
  [][ (/\ pc \in {"recvAction", "recvAck"}
       /\ pc' # pc
       /\ Len(wire') < Len(wire)
       /\ nIrregular' = 0
       /\ \A k \in 1..Len(trace') : IsSend(trace'[k]) => trace'[k][3] > 0) =>
        /\ pc = "recvAction" => \E a \in PeerActions : Consumed = ActionLine(a)
        /\ pc = "recvAck" => Consumed = AckLine
        /\ wire' = <<>>
        /\ toPeer = <<>> ]_vars

\* C19: the done field of the REWARD message reflects only the evaluator.
\* A Running tick of a connected controller that completes sends exactly
\* one REWARD message; its done field is "1" if the evaluation found the
\* goal reached or a collision and "0" otherwise.  When the tick ends the
\* episode only because m_nSteps has reached m_nMaxSteps, the message
\* carries "0" although m_bEpisodeDone becomes true.
C19_DoneFieldFromEvaluator ==
  [][ (lastOp' = "Running" /\ m_bConnected) =>
        LET ref == ReferenceReward(NearGoal(sensed'.pos),
                                   Stalled(sensed'.pos, m_cPreviousPosition),
                                   ProxHigh(sensed'.prox))
        IN /\ Count(trace', IsRewardSend) = 1
           /\ \A k \in 1..Len(trace') :
                IsRewardSend(trace'[k]) =>
                  /\ trace'[k][2].done = (IF ref.done THEN "1" ELSE "0")
                  /\ (~ref.done /\ m_nSteps' >= m_nMaxSteps) =>
                       (m_bEpisodeDone' /\ trace'[k][2].done = "0") ]_vars

\* A tick that ends its episode at the step limit and has sent done = 0.
C19_Witness ==
  /\ lastOp = "Running"
  /\ m_bConnected
  /\ m_bEpisodeDone
  /\ ~outcome.done
  /\ m_nSteps = MaxSteps
  /\ m_nMaxSteps = MaxSteps
  /\ \E k \in 1..Len(trace) : IsRewardSend(trace[k]) /\ trace[k][2].done = "0"

\* C20: first-tick stall.  Init, the host's Reset and every episode reset
\* store the sensed position in m_cPreviousPosition, and the two resets
\* stop the wheels.  In the first Running tick after any of them
\* (m_nSteps = 0 before it), if the sensed position is within
\* m_fCollisionThreshold of the stored one and not within m_fGoalThreshold
\* of the goal, the evaluation yields the collision penalty and done, and
\* the episode ends with m_nSteps = 1, whatever the transport did and
\* whichever action id the peer's reply carried.
C20_FirstTickStall ==
  [][ /\ lastOp' \in {"Init", "Reset", "ResetEpisode"} =>
           m_cPreviousPosition' = sensed'.pos
      /\ lastOp' \in {"Reset", "ResetEpisode"} =>
           \E k \in 1..Len(trace') : trace'[k] = EvWheels(0, 0)
      /\ (/\ lastOp' \in RunningOps
          /\ m_nSteps = 0
          /\ Stalled(sensed'.pos, m_cPreviousPosition)
          /\ ~NearGoal(sensed'.pos)
          /\ PeerVariesOnlyActionId(trace')) =>
           /\ lastOp' = "Running"
           /\ outcome'.reward = CollisionPenalty
           /\ outcome'.done
           /\ m_bEpisodeDone'
           /\ m_nSteps' = 1 ]_vars

\* The most Running ticks an episode can take, max(m_nMaxSteps, 1), and
\* the most ticks still needed to reach Finished: one reset tick and
\* StepCap Running ticks for every episode not yet counted, less the part
\* of the current episode that is over.
StepCap == IF m_nMaxSteps > 1 THEN m_nMaxSteps ELSE 1
TicksLeft ==
  IF AllEpisodesDone THEN 0
  ELSE (m_nMaxEpisodes - m_nEpisode) * (StepCap + 1)
         - (IF m_bEpisodeDone THEN StepCap ELSE m_nSteps)

\* C21: the run eventually finishes.  For every m_nMaxSteps and every
\* m_nMaxEpisodes >= 0, with a host that keeps calling ControlStep and
\* never calls Reset and with every recv() returning: Init leaves
\* m_nMaxEpisodes * (max(m_nMaxSteps, 1) + 1) ticks to go at most, and
\* every tick before Finished, whatever the sensors read, the peer replied
\* and the transport did, returns to the host as a Running or a reset tick
\* and brings Finished at least one tick nearer; so Finished is reached
\* within that many ticks.  m_nSteps, and the number of Running ticks of an
\* episode, never exceed max(m_nMaxSteps, 1).
C21_RunFinishes ==
  [][ /\ lastOp' = "Init" => TicksLeft' = m_nMaxEpisodes' * (StepCap' + 1)
      /\ (lastOp' \in TickOps /\ ~AllEpisodesDone) =>
           /\ lastOp' \in {"Running", "ResetEpisode"}
           /\ phase' = "ready"
           /\ TicksLeft' <= TicksLeft - 1
           /\ TicksLeft' >= 0
           /\ TicksLeft' = 0 <=> AllEpisodesDone'
      /\ phase' # "constructed" =>
           /\ m_nSteps' <= StepCap'
           /\ Len(episodeRewards') <= StepCap' ]_vars

====
